---- MODULE Spec2Model ----
(***************************************************************************)
(* Model of the TypeScript module-map generator: createModuleMap           *)
(* (module-map.ts), callOpenAI and the conversation helpers                *)
(* (openai-tools.ts), the file utilities (utils.ts) and the entry point    *)
(* main (index.ts).                                                        *)
(*                                                                         *)
(* A JavaScript string is modelled as a sequence of one-character strings, *)
(* so that startsWith, endsWith, split, the template literals and the      *)
(* path functions are computed, not assumed.  A JavaScript object used as  *)
(* a Record<string, T> is a sequence of [k, v] pairs in insertion order.   *)
(***************************************************************************)
EXTENDS Integers, Sequences, FiniteSets, TLC

(***************************************************************************)
(* Bounds of the model.                                                    *)
(***************************************************************************)
\* the largest number of keys in the `modules` object of one oracle reply
MaxModules == 1
\* the largest number of tool-call rounds the oracle asks for in one analysis
MaxRounds == 1

(***************************************************************************)
(* Strings.                                                                *)
(***************************************************************************)
\* JavaScript `undefined`: no string, since every element of a string is
\* one character long
undefined == <<"undefined">>

StartsWith(s, p) == Len(s) >= Len(p) /\ SubSeq(s, 1, Len(p)) = p

EndsWith(s, p) == Len(s) >= Len(p) /\ SubSeq(s, Len(s) - Len(p) + 1, Len(s)) = p

\* String.prototype.split(sep) for a non-empty separator: the pieces between
\* the occurrences of sep, scanning from the left
RECURSIVE SplitFrom(_, _, _)
SplitFrom(s, sep, acc) ==
  IF s = <<>> THEN <<acc>>
  ELSE IF StartsWith(s, sep)
       THEN <<acc>> \o SplitFrom(SubSeq(s, Len(sep) + 1, Len(s)), sep, <<>>)
       ELSE SplitFrom(Tail(s), sep, Append(acc, Head(s)))

Split(s, sep) == SplitFrom(s, sep, <<>>)

\* Array.prototype.join(sep)
RECURSIVE Join(_, _)
Join(parts, sep) ==
  IF parts = <<>> THEN <<>>
  ELSE IF Len(parts) = 1 THEN parts[1]
  ELSE parts[1] \o sep \o Join(Tail(parts), sep)

Range(seq) == {seq[i] : i \in 1..Len(seq)}

(***************************************************************************)
(* Records (JavaScript objects with string keys), in insertion order.      *)
(***************************************************************************)
Keys(obj) == [i \in 1..Len(obj) |-> obj[i].k]

KeySet(obj) == {obj[i].k : i \in 1..Len(obj)}

Has(obj, key) == key \in KeySet(obj)

\* obj[key]: undefined for a key the object does not have
Get(obj, key) ==
  IF Has(obj, key)
  THEN obj[CHOOSE i \in 1..Len(obj) : obj[i].k = key].v
  ELSE undefined

\* obj[key] = val: an existing key keeps its place, a new key goes last
Put(obj, key, val) ==
  IF Has(obj, key)
  THEN [i \in 1..Len(obj) |-> IF obj[i].k = key THEN [k |-> key, v |-> val] ELSE obj[i]]
  ELSE Append(obj, [k |-> key, v |-> val])

(***************************************************************************)
(* sortObjectKeys (utils.ts).                                              *)
(***************************************************************************)
\* the characters of the model's strings in the order of their code units
CodeUnits == <<"-", ".", "/", ":", ">", "_",
               "a", "b", "c", "d", "e", "f", "g", "h", "i", "j", "k", "l", "m", "n", "o", "p", "q", "r", "s", "t", "u", "v", "w", "x", "y", "z">>

CharCode(c) == CHOOSE i \in 1..Len(CodeUnits) : CodeUnits[i] = c

\* a < b as Array.prototype.sort() without a comparator orders strings
RECURSIVE StringLess(_, _)
StringLess(a, b) ==
  IF b = <<>> THEN FALSE
  ELSE IF a = <<>> THEN TRUE
  ELSE IF Head(a) = Head(b) THEN StringLess(Tail(a), Tail(b))
  ELSE CharCode(Head(a)) < CharCode(Head(b))

\* Object.keys(obj).sort()
RECURSIVE SortedKeys(_)
SortedKeys(keys) ==
  IF keys = <<>> THEN <<>>
  ELSE LET least == CHOOSE k \in Range(keys) : \A other \in Range(keys) : ~StringLess(other, k)
       IN <<least>> \o SortedKeys(SelectSeq(keys, LAMBDA k : k # least))

sortObjectKeys(obj) ==
  LET keys == SortedKeys(Keys(obj)) IN
  [i \in 1..Len(keys) |-> [k |-> keys[i], v |-> Get(obj, keys[i])]]

(***************************************************************************)
(* Node's path module (POSIX), for relative paths.                         *)
(***************************************************************************)
SLASH == <<"/">>
DOT == <<".">>
DOTDOT == <<".", ".">>

\* the segments of a normalized path: empty and "." segments go, ".."
\* removes the segment before it unless that is ".." too or there is none
RECURSIVE NormSegs(_, _)
NormSegs(segs, acc) ==
  IF segs = <<>> THEN acc
  ELSE LET s == Head(segs) IN
       IF s = <<>> \/ s = DOT THEN NormSegs(Tail(segs), acc)
       ELSE IF s = DOTDOT /\ acc # <<>> /\ acc[Len(acc)] # DOTDOT
            THEN NormSegs(Tail(segs), SubSeq(acc, 1, Len(acc) - 1))
            ELSE NormSegs(Tail(segs), Append(acc, s))

\* path.normalize(p), p relative
PathNormalize(p) ==
  LET segs == NormSegs(Split(p, SLASH), <<>>)
      body == Join(segs, SLASH)
      trailing == p # <<>> /\ p[Len(p)] = "/"
  IN IF body = <<>> THEN (IF trailing THEN <<".", "/">> ELSE DOT)
     ELSE IF trailing THEN body \o SLASH ELSE body

\* path.join(a, b)
PathJoin(a, b) ==
  IF a = <<>> THEN PathNormalize(b)
  ELSE IF b = <<>> THEN PathNormalize(a)
  ELSE PathNormalize(a \o SLASH \o b)

\* path.dirname(p), p a relative path without a trailing slash
PathDirname(p) ==
  LET segs == Split(p, SLASH) IN
  IF Len(segs) <= 1 THEN DOT ELSE Join(SubSeq(segs, 1, Len(segs) - 1), SLASH)

(***************************************************************************)
(* The file system under the project root.  A disk maps the path of each   *)
(* directory (<<>> is the root) to its entries in readdirSync order; a     *)
(* file entry carries the lines of the file.                               *)
(***************************************************************************)
A_TS == <<"a", ".", "t", "s">>
B_TS == <<"b", ".", "t", "s">>
B_D_TS == <<"b", ".", "d", ".", "t", "s">>
INDEX_TS == <<"i", "n", "d", "e", "x", ".", "t", "s">>
B_DIR == <<"b">>
NODE_MODULES == <<"n", "o", "d", "e", "_", "m", "o", "d", "u", "l", "e", "s">>
TS == <<".", "t", "s">>
TSX == <<".", "t", "s", "x">>
D_TS == <<".", "d", ".", "t", "s">>
TEST_TS == <<".", "t", "e", "s", "t", ".", "t", "s">>
CONFIG_TS == <<".", "c", "o", "n", "f", "i", "g", ".", "t", "s">>
IMPORT == <<"i", "m", "p", "o", "r", "t">>

\* source lines used as file contents
LineImportB == <<"i", "m", "p", "o", "r", "t", " ", ".", "/", "b">>
LineIndented == <<" ", "i", "m", "p", "o", "r", "t", " ", "r">>
LineComment == <<"/", "/", " ", "i", "m", "p", "o", "r", "t">>
LineCode == <<"x", "=", "1">>

File(name, text) == [name |-> name, dir |-> FALSE, text |-> text]
Dir(name) == [name |-> name, dir |-> TRUE, text |-> <<>>]

\* no project root: readdirSync fails
DiskMissing == <<>>
\* an empty project
DiskEmpty == (<<>> :> <<>>)
\* one file
DiskOne == (<<>> :> <<File(A_TS, <<LineCode>>)>>)
\* the two files in the other readdirSync order
DiskSwapped ==
  (<<>> :> <<File(B_TS, <<LineCode>>), File(A_TS, <<LineImportB>>)>>)
\* two files side by side
DiskTwo ==
  (<<>> :> <<File(A_TS, <<LineComment, LineImportB, LineCode, LineIndented>>),
             File(B_TS, <<LineCode>>)>>)
\* a dependency directory, a declaration file and a package directory b/
DiskTree ==
  (<<>> :> <<Dir(NODE_MODULES), File(B_D_TS, <<>>), Dir(B_DIR)>>)
  @@ (NODE_MODULES :> <<File(B_TS, <<LineCode>>)>>)
  @@ (B_DIR :> <<File(INDEX_TS, <<LineImportB>>)>>)

Disks == {DiskMissing, DiskEmpty, DiskOne, DiskTwo, DiskTree}

\* path.relative(directory, path.join(dir, name)) for dir under directory
RelativePath(dir, name) == IF dir = <<>> THEN name ELSE dir \o SLASH \o name

\* traverseDirectory(dir), from entry i on: the files pushed, in order
RECURSIVE traverseDirectory(_, _, _)
traverseDirectory(fs, dir, i) ==
  IF i > Len(fs[dir]) THEN <<>>
  ELSE LET entry == fs[dir][i]
           relativePath == RelativePath(dir, entry.name)
           here ==
             IF entry.dir /\ ~StartsWith(entry.name, DOT) /\ entry.name # NODE_MODULES
             THEN traverseDirectory(fs, relativePath, 1)
             ELSE IF ~entry.dir
                     /\ (EndsWith(entry.name, TS) \/ EndsWith(entry.name, TSX))
                     /\ ~EndsWith(entry.name, D_TS)
                     /\ ~EndsWith(entry.name, TEST_TS)
                     /\ ~EndsWith(entry.name, CONFIG_TS)
                  THEN <<relativePath>>
                  ELSE <<>>
       IN here \o traverseDirectory(fs, dir, i + 1)

\* getTypescriptFiles(directory); the caller checks that the root exists
getTypescriptFiles(fs) == traverseDirectory(fs, <<>>, 1)

\* the entry of the disk that a project-relative path names, if any
EntriesAt(fs, p) ==
  LET segs == NormSegs(Split(p, SLASH), <<>>)
      parent == Join(SubSeq(segs, 1, Len(segs) - 1), SLASH)
  IN IF segs = <<>> \/ segs[1] = DOTDOT \/ parent \notin DOMAIN fs THEN {}
     ELSE {fs[parent][i] : i \in {j \in 1..Len(fs[parent]) :
                                    fs[parent][j].name = segs[Len(segs)]}}

\* fs.existsSync(path.join(baseDirectory, p)): a file or a directory is
\* there; a path that leaves the project root is outside the model and
\* taken not to exist
existsSync(fs, p) ==
  LET segs == NormSegs(Split(p, SLASH), <<>>) IN
  IF segs = <<>> THEN <<>> \in DOMAIN fs ELSE EntriesAt(fs, p) # {}

\* whether fs.readFileSync(path.join(directory, filePath)) can succeed
IsReadableFile(fs, p) == \E e \in EntriesAt(fs, p) : ~e.dir

\* getFileContent(directory, filePath) for a readable file: its lines
getFileContent(fs, p) == (CHOOSE e \in EntriesAt(fs, p) : ~e.dir).text

(***************************************************************************)
(* resolveImportPath (utils.ts).                                           *)
(***************************************************************************)
possiblePaths(resolvedPath) ==
  << resolvedPath,
     resolvedPath \o TS,
     resolvedPath \o TSX,
     PathJoin(resolvedPath, INDEX_TS),
     PathJoin(resolvedPath, <<"i", "n", "d", "e", "x">> \o TSX) >>

\* resolveImportPath with the bug of returning the resolved path without an
\* extension when no candidate exists
resolveImportPath_NoGuess(importPath, importingFilePath, fs) ==
  IF ~StartsWith(importPath, DOT) THEN importPath
  ELSE LET importingDir == PathDirname(importingFilePath)
           resolvedPath == PathNormalize(PathJoin(importingDir, importPath))
           cands == possiblePaths(resolvedPath)
           hits == {i \in 1..Len(cands) : existsSync(fs, cands[i])}
       IN IF hits # {}
          THEN cands[CHOOSE i \in hits : \A j \in hits : i <= j]
          ELSE resolvedPath

resolveImportPath(importPath, importingFilePath, fs) ==
  IF ~StartsWith(importPath, DOT) THEN importPath
  ELSE LET importingDir == PathDirname(importingFilePath)
           resolvedPath == PathNormalize(PathJoin(importingDir, importPath))
           cands == possiblePaths(resolvedPath)
           hits == {i \in 1..Len(cands) : existsSync(fs, cands[i])}
       IN IF hits # {}
          THEN cands[CHOOSE i \in hits : \A j \in hits : i <= j]
          ELSE resolvedPath \o TS

(***************************************************************************)
(* extractCalledModules (utils.ts).                                        *)
(***************************************************************************)
IsSpace(c) == c \in {" ", "\t"}
IsQuote(c) == c \in {"'", "\""}
FROM == <<"f", "r", "o", "m">>

\* line.match(/from\s+['"](.+?)['"]/) tried at position i: the capture, or
\* undefined when the pattern does not match there
MatchFromAt(line, i) ==
  LET n == Len(line)
      afterFrom == i + Len(FROM)
      \* the first position at or after afterFrom that holds no whitespace
      rest == {k \in afterFrom..n : ~IsSpace(line[k])}
      open == IF rest = {} THEN n + 1 ELSE CHOOSE k \in rest : \A m \in rest : k <= m
      \* (.+?) takes at least one character and stops at the first quote
      closes == {c \in (open + 2)..n : IsQuote(line[c])}
      close == CHOOSE c \in closes : \A m \in closes : c <= m
  IN IF /\ i + Len(FROM) - 1 <= n
        /\ SubSeq(line, i, i + Len(FROM) - 1) = FROM
        /\ open > afterFrom
        /\ open <= n
        /\ IsQuote(line[open])
        /\ closes # {}
     THEN SubSeq(line, open + 1, close - 1)
     ELSE undefined

\* match[1] of the leftmost match, or undefined
MatchFrom(line) ==
  LET starts == {i \in 1..Len(line) : MatchFromAt(line, i) # undefined} IN
  IF starts = {} THEN undefined
  ELSE MatchFromAt(line, CHOOSE i \in starts : \A m \in starts : i <= m)

\* IsSkippedImport with the bug of skipping nothing
IsSkippedImport_Never(importPath) == FALSE

\* "Skip node_modules imports and absolute imports"
IsSkippedImport(importPath) ==
  ~StartsWith(importPath, DOT) /\ ~StartsWith(importPath, SLASH)

\* the modules array after the loop over the lines
RECURSIVE CalledModules(_, _, _)
CalledModules(lines, fs, filePath) ==
  IF lines = <<>> THEN <<>>
  ELSE LET importPath == MatchFrom(Head(lines))
           resolvedPath == resolveImportPath(importPath, filePath, fs)
           pushed ==
             IF importPath = undefined \/ IsSkippedImport(importPath) THEN <<>>
             ELSE IF filePath # <<>>
                  THEN (IF resolvedPath # importPath THEN <<resolvedPath>> ELSE <<>>)
                  ELSE <<importPath>>
       IN pushed \o CalledModules(Tail(lines), fs, filePath)

\* [...new Set(modules)]: the first occurrence of each element, in order
RECURSIVE Dedupe(_)
Dedupe(seq) ==
  IF seq = <<>> THEN <<>>
  ELSE LET before == Dedupe(SubSeq(seq, 1, Len(seq) - 1))
           last == seq[Len(seq)]
       IN IF last \in {before[i] : i \in 1..Len(before)} THEN before
          ELSE Append(before, last)

extractCalledModules(importLines, fs, filePath) ==
  IF importLines = <<>> THEN <<>>
  ELSE Dedupe(CalledModules(Split(importLines, <<"\n">>), fs, filePath))

(***************************************************************************)
(* The oracle (the chat-completion API) as seen by callOpenAI.             *)
(***************************************************************************)
ARROW == <<"-", ">">>
REL_B == <<".", "/", "b">>
REACT == <<"r", "e", "a", "c", "t">>
ARROW_PATH == <<"b", ".", "t", "s", "-", ">", "x">>
R1 == <<"r", "1">>
R2 == <<"r", "2">>
Reasons == {R1, R2}

\* what the oracle says file f is for
Describe(f) == <<"d", ":">> \o f

\* the paths the oracle may name in `modules`: the files it was given, a
\* relative specifier, a package name and a path with the text "->" in it
OraclePaths(fileList) == Range(fileList) \cup {REL_B, REACT, ARROW_PATH}

\* the `modules` objects of at most MaxModules keys
ModuleObjects(fileList) ==
  LET Entry == [k : OraclePaths(fileList), v : Reasons] IN
  UNION {{m \in [1..n -> Entry] : \A i, j \in 1..n : m[i].k = m[j].k => i = j}
         : n \in 0..MaxModules}

\* A reply without tool calls is its content: no content at all (null),
\* text that is not JSON, the JSON text null, or a JSON object that may lack
\* `description` and `modules`.
Reply(kind, description, hasModules, modules) ==
  [kind |-> kind, description |-> description, hasModules |-> hasModules,
   modules |-> modules]

Replies(fileList, f) ==
  {Reply(kind, undefined, FALSE, <<>>) : kind \in {"empty", "text", "null"}}
  \cup {Reply("object", d, FALSE, <<>>) : d \in {undefined, <<>>, Describe(f)}}
  \cup {Reply("object", d, TRUE, m) :
          d \in {undefined, <<>>, Describe(f)}, m \in ModuleObjects(fileList)}

\* JSON.parse on the members of the `modules` object as the oracle wrote
\* them: a name written again replaces the value and keeps the first place
RECURSIVE JSONParseModules(_)
JSONParseModules(members) ==
  IF members = <<>> THEN <<>>
  ELSE LET last == members[Len(members)]
       IN Put(JSONParseModules(SubSeq(members, 1, Len(members) - 1)), last.k, last.v)

\* JSON.parse(response) succeeds
JSONParses(reply) == reply.kind \in {"null", "object"}

\* A tool call names a tool and carries its arguments as JSON text
ToolCall(name, valid, filePath) ==
  [name |-> name, valid |-> valid, filePath |-> filePath]

GET_IMPORT_LINES == "get_import_lines"

\* the tool_calls arrays the oracle may send
ToolRequests ==
  { <<ToolCall(GET_IMPORT_LINES, TRUE, A_TS)>>,
    <<ToolCall(GET_IMPORT_LINES, TRUE, REACT), ToolCall(GET_IMPORT_LINES, TRUE, A_TS)>>,
    <<ToolCall(GET_IMPORT_LINES, FALSE, <<>>)>>,
    <<ToolCall("other_tool", TRUE, A_TS)>> }

(***************************************************************************)
(* Conversations (openai-tools.ts).                                        *)
(***************************************************************************)
Message(role, content, name) == [role |-> role, content |-> content, name |-> name]

createConversation == [messages |-> <<>>]

addUserMessage(conversation, content) ==
  [messages |-> Append(conversation.messages, Message("user", content, undefined))]

\* the prompt of createModuleMap: the template filled with the file list,
\* the file's path and the file's content
Prompt(fileList, f, content) == <<"prompt", fileList, f, content>>

(***************************************************************************)
(* The get_import_lines tool (module-map.ts).                              *)
(***************************************************************************)
RECURSIVE TrimStart(_)
TrimStart(s) == IF s # <<>> /\ IsSpace(Head(s)) THEN TrimStart(Tail(s)) ELSE s

RECURSIVE TrimEnd(_)
TrimEnd(s) ==
  IF s # <<>> /\ IsSpace(s[Len(s)]) THEN TrimEnd(SubSeq(s, 1, Len(s) - 1)) ELSE s

Trim(s) == TrimEnd(TrimStart(s))

\* IsImportLine with the bug of testing the line as it stands, untrimmed
IsImportLine_Untrimmed(line) ==
  /\ StartsWith(line, IMPORT)
  /\ ~StartsWith(line, <<"/", "/">>)
  /\ ~StartsWith(line, <<"/", "*">>)

\* the filter of the tool: trimmed.startsWith('import') and not a comment
IsImportLine(line) ==
  LET trimmed == Trim(line) IN
  /\ StartsWith(trimmed, IMPORT)
  /\ ~StartsWith(trimmed, <<"/", "/">>)
  /\ ~StartsWith(trimmed, <<"/", "*">>)

RECURSIVE FilterImportLines(_)
FilterImportLines(lines) ==
  IF lines = <<>> THEN <<>>
  ELSE (IF IsImportLine(Head(lines)) THEN <<Head(lines)>> ELSE <<>>)
       \o FilterImportLines(Tail(lines))

OPEN_TAG == <<"<", "i", "m", "p", "o", "r", "t", "_", "l", "i", "n", "e", ">">>
CLOSE_TAG == <<"<", "/", "i", "m", "p", "o", "r", "t", "_", "l", "i", "n", "e", ">">>
ERROR_PREFIX == <<"E", "r", "r", "o", "r", " ", "g", "e", "t", "t", "i", "n", "g", " ",
                  "i", "m", "p", "o", "r", "t", " ", "l", "i", "n", "e", "s", ":", " ">>

\* execute(args) of the tool: the read error is caught and reported as
\* text, the message of the error naming the path
getImportLines(fs, filePath) ==
  IF IsReadableFile(fs, filePath)
  THEN LET importLines == FilterImportLines(getFileContent(fs, filePath))
       IN Join([i \in 1..Len(importLines) |-> OPEN_TAG \o importLines[i] \o CLOSE_TAG],
               <<"\n">>)
  ELSE ERROR_PREFIX \o <<"E", "N", "O", "E", "N", "T", " ">> \o filePath

(***************************************************************************)
(* Graph assembly (createModuleMap, second loop).                          *)
(***************************************************************************)
\* the key under which the fact (file, modulePath) is stored
PairKey(f, modulePath) == f \o ARROW \o modulePath

\* const [module1, module2] = pathPairs.split("->")
Module1(pathPairs) == Split(pathPairs, ARROW)[1]
Module2(pathPairs) ==
  LET parts == Split(pathPairs, ARROW) IN
  IF Len(parts) >= 2 THEN parts[2] ELSE undefined

\* the loop over the stored keys for one file: calls and callers after the
\* first n keys
RECURSIVE ScanPairs(_, _, _)
ScanPairs(f, reasons, n) ==
  IF n = 0 THEN [calls |-> <<>>, callers |-> <<>>]
  ELSE LET before == ScanPairs(f, reasons, n - 1)
           pathPairs == reasons[n].k
       IN IF Module1(pathPairs) = f
          THEN [before EXCEPT !.calls = Put(@, Module2(pathPairs), reasons[n].v)]
          ELSE IF Module2(pathPairs) = f
               THEN [before EXCEPT !.callers = Put(@, Module1(pathPairs), reasons[n].v)]
               ELSE before

\* ModuleEntry with the bug of never filling in the callers side
ModuleEntry_NoCallers(f, reasons, descriptions) ==
  LET scan == ScanPairs(f, reasons, Len(reasons)) IN
  [description |-> Get(descriptions, f), calling |-> scan.calls, callers |-> <<>>]

ModuleEntry(f, reasons, descriptions) ==
  LET scan == ScanPairs(f, reasons, Len(reasons)) IN
  [description |-> Get(descriptions, f), calling |-> scan.calls, callers |-> scan.callers]

\* AssembleModules with the bug of leaving out the files that have no edge
RECURSIVE AssembleModules_SkipIsolated(_, _, _, _)
AssembleModules_SkipIsolated(fileList, reasons, descriptions, n) ==
  IF n = 0 THEN <<>>
  ELSE LET entry == ModuleEntry(fileList[n], reasons, descriptions)
           before == AssembleModules_SkipIsolated(fileList, reasons, descriptions, n - 1)
       IN IF entry.calling = <<>> /\ entry.callers = <<>>
          THEN before
          ELSE Put(before, fileList[n], entry)

\* moduleMap.modules after the first n files
RECURSIVE AssembleModules(_, _, _, _)
AssembleModules(fileList, reasons, descriptions, n) ==
  IF n = 0 THEN <<>>
  ELSE Put(AssembleModules(fileList, reasons, descriptions, n - 1),
           fileList[n], ModuleEntry(fileList[n], reasons, descriptions))

\* the facts of one reply, stored in the order of Object.keys(modules)
RECURSIVE RecordReasons(_, _, _)
RecordReasons(reasons, f, modules) ==
  IF modules = <<>> THEN reasons
  ELSE RecordReasons(Put(reasons, PairKey(f, Head(modules).k), Head(modules).v),
                     f, Tail(modules))

(***************************************************************************)
(* The program: main (index.ts) running createModuleMap and callOpenAI.    *)
(***************************************************************************)
VARIABLES
  disk,               \* the file system under the project root
  apiKey,             \* whether OPENAI_API_KEY is set (openai is not null)
  pc,                 \* where the program is
  files,              \* createModuleMap: const files
  idx,                \* createModuleMap: position of the first loop in files
  callingReasons,     \* createModuleMap: const callingReasons
  moduleDescriptions, \* createModuleMap: const moduleDescriptions
  conversation,       \* callOpenAI: the messages sent, then updatedConversation
  heap,               \* the conversation objects the analysis in flight made, oldest first
  forceJSON,          \* callOpenAI: the forceJSON argument of the call in flight
  pendingTools,       \* callOpenAI: the tool calls not yet executed
  rounds,             \* tool-call rounds of the current analysis so far
  moduleMap,          \* the value createModuleMap returned
  thrown,             \* the error that ended createModuleMap or main's try block
  exitStatus,         \* the status the process ended with
  written,            \* what saveMapAsYaml wrote
  saveCalls,          \* history: calls of saveMapAsYaml
  inflight,           \* history: positions whose oracle call chain is running
  analysed,           \* history: positions whose analysis has completed
  reported,           \* history: the reply recorded for each analysed file
  faults,             \* history: the failures the environment produced
  extraction,         \* a call of extractCalledModules: arguments and result
  resolution          \* a call of resolveImportPath: arguments and result

vars == << disk, apiKey, pc, files, idx, callingReasons, moduleDescriptions,
           conversation, heap, forceJSON, pendingTools, rounds, moduleMap, thrown,
           exitStatus, written, saveCalls, inflight, analysed, reported, faults,
           extraction, resolution >>

env == << disk, apiKey, extraction, resolution >>

progVars == << files, idx, callingReasons, moduleDescriptions, conversation, heap,
               forceJSON, pendingTools, rounds >>
histVars == << inflight, analysed, reported, faults >>
mainVars == << moduleMap, exitStatus, written, saveCalls >>

NoError == "none"
NoExtraction == [importLines |-> <<>>, filePath |-> <<>>, done |-> FALSE, result |-> <<>>]
NoResolution == [importPath |-> <<>>, importingFilePath |-> <<>>, done |-> FALSE,
                 result |-> <<>>]
NoMap == [modules |-> <<>>, returned |-> FALSE]
NotExited == -1

Init ==
  /\ disk \in Disks
  /\ apiKey \in BOOLEAN
  /\ pc = "main"
  /\ files = <<>>
  /\ idx = 1
  /\ callingReasons = <<>>
  /\ moduleDescriptions = <<>>
  /\ conversation = createConversation
  /\ heap = <<>>
  /\ forceJSON = FALSE
  /\ pendingTools = <<>>
  /\ rounds = 0
  /\ moduleMap = NoMap
  /\ thrown = NoError
  /\ exitStatus = NotExited
  /\ written = <<>>
  /\ saveCalls = 0
  /\ inflight = {}
  /\ analysed = {}
  /\ reported = <<>>
  /\ faults = {}
  /\ extraction = NoExtraction
  /\ resolution = NoResolution

\* createModuleMap rejects with error e
Throw(e) == pc' = "threw" /\ thrown' = e

Fault(kind, f) == faults' = faults \cup {[kind |-> kind, file |-> f]}

\* getFileContent throws in the first loop: nothing catches it
ReadFailure(f) ==
  /\ Throw("read")
  /\ Fault("read", f)
  /\ UNCHANGED << idx, callingReasons, moduleDescriptions, conversation, heap, forceJSON,
                  rounds, inflight, analysed, reported >>

\* ParseFailure with the bug of catching the error, recording an empty
\* description for the file and going on with the next file
ParseFailure_Placeholder(f) ==
  /\ Fault("parse", f)
  /\ moduleDescriptions' = Put(moduleDescriptions, f, <<>>)
  /\ idx' = idx + 1
  /\ pc' = "loop"
  /\ inflight' = inflight \ {idx}
  /\ analysed' = analysed \cup {idx}
  /\ UNCHANGED << thrown, callingReasons, conversation, heap, forceJSON, pendingTools,
                  rounds, reported >>

\* JSON.parse(response) throws: nothing catches it
ParseFailure(f) ==
  /\ Throw("parse")
  /\ Fault("parse", f)
  /\ UNCHANGED << idx, callingReasons, moduleDescriptions, conversation, heap, forceJSON,
                  pendingTools, rounds, inflight, analysed, reported >>

\* main calls createModuleMap, which enumerates the files
Enumerate ==
  /\ pc = "main"
  /\ IF <<>> \in DOMAIN disk
     THEN /\ files' = getTypescriptFiles(disk)
          /\ pc' = "loop"
          /\ UNCHANGED << thrown, faults >>
     ELSE /\ Throw("enumeration")
          /\ Fault("enumeration", <<>>)
          /\ UNCHANGED files
  /\ UNCHANGED << env, idx, callingReasons, moduleDescriptions, conversation, heap,
                  forceJSON, pendingTools, rounds, mainVars, inflight, analysed,
                  reported >>

\* NoClient with the bug of going on without a client, as with a mock
NoClient_Mock == FALSE

\* callOpenAI: `if (!openai)`, the client being null when no key is set
NoClient == ~apiKey

\* BeginFile with the bug of opening the conversation with the replies
\* recorded for the files analysed before
BeginFile_WithHistory ==
  /\ pc = "loop"
  /\ idx <= Len(files)
  /\ LET file == files[idx]
         earlier == [messages |-> [i \in 1..Len(reported) |->
                       Message("assistant", reported[i].reply, undefined)]]
     IN
     \E readOk \in BOOLEAN :
       IF ~(readOk /\ IsReadableFile(disk, file))
       THEN ReadFailure(file)
       ELSE /\ conversation' =
                 addUserMessage(earlier, Prompt(files, file, getFileContent(disk, file)))
            /\ heap' = <<earlier, conversation'>>
            /\ IF NoClient
               THEN /\ Throw("no api key")
                    /\ Fault("no api key", file)
                    /\ UNCHANGED << forceJSON, rounds, inflight >>
               ELSE /\ pc' = "oracle"
                    /\ forceJSON' = TRUE
                    /\ rounds' = 0
                    /\ inflight' = inflight \cup {idx}
                    /\ UNCHANGED << thrown, faults >>
            /\ UNCHANGED << idx, callingReasons, moduleDescriptions, analysed, reported >>
  /\ UNCHANGED << env, files, pendingTools, mainVars >>

\* one pass of the first loop up to the await: read the file, build the
\* conversation, enter callOpenAI and send the request
BeginFile ==
  /\ pc = "loop"
  /\ idx <= Len(files)
  /\ LET file == files[idx] IN
     \E readOk \in BOOLEAN :
       IF ~(readOk /\ IsReadableFile(disk, file))
       THEN ReadFailure(file)
       ELSE /\ conversation' =
                 addUserMessage(createConversation,
                                Prompt(files, file, getFileContent(disk, file)))
            /\ heap' = <<createConversation, conversation'>>
            /\ IF NoClient
               THEN /\ Throw("no api key")
                    /\ Fault("no api key", file)
                    /\ UNCHANGED << forceJSON, rounds, inflight >>
               ELSE /\ pc' = "oracle"
                    /\ forceJSON' = TRUE
                    /\ rounds' = 0
                    /\ inflight' = inflight \cup {idx}
                    /\ UNCHANGED << thrown, faults >>
            /\ UNCHANGED << idx, callingReasons, moduleDescriptions, analysed, reported >>
  /\ UNCHANGED << env, files, pendingTools, mainVars >>

\* openai.chat.completions.create rejects
OracleThrows ==
  /\ pc = "oracle"
  /\ Throw("oracle")
  /\ Fault("oracle", files[idx])
  /\ UNCHANGED << env, progVars, mainVars, inflight, analysed, reported >>

\* OracleToolCalls with the bug of pushing the assistant's message onto the
\* conversation object callOpenAI received
OracleToolCalls_InPlace ==
  /\ pc = "oracle"
  /\ rounds < MaxRounds
  /\ \E request \in ToolRequests :
       /\ pendingTools' = request
       /\ conversation' =
            [messages |-> Append(conversation.messages,
                                 Message("assistant", <<>>, undefined))]
       /\ heap' = [heap EXCEPT ![Len(heap)] = conversation']
  /\ rounds' = rounds + 1
  /\ pc' = "tools"
  /\ UNCHANGED << env, files, idx, callingReasons, moduleDescriptions,
                  forceJSON, mainVars, thrown, histVars >>

\* the reply asks for tool calls
OracleToolCalls ==
  /\ pc = "oracle"
  /\ rounds < MaxRounds
  /\ \E request \in ToolRequests :
       /\ pendingTools' = request
       /\ conversation' =
            [messages |-> Append(conversation.messages,
                                 Message("assistant", <<>>, undefined))]
       /\ heap' = Append(heap, conversation')
  /\ rounds' = rounds + 1
  /\ pc' = "tools"
  /\ UNCHANGED << env, files, idx, callingReasons, moduleDescriptions,
                  forceJSON, mainVars, thrown, histVars >>

\* ToolFound with the bug of running the only tool whatever name the oracle
\* asked for
ToolFound_Any(toolCall) == TRUE

\* const toolFunction = toolMap.get(toolName): createModuleMap supplies one
\* tool, get_import_lines
ToolFound(toolCall) == toolCall.name = GET_IMPORT_LINES

\* ToolStep with the bug of calling the oracle again after the first tool
\* call, the other tool calls of the reply left unexecuted
ToolStep_FirstOnly ==
  /\ pc = "tools"
  /\ pendingTools # <<>>
  /\ LET toolCall == Head(pendingTools) IN
     IF ~ToolFound(toolCall)
     THEN /\ Throw("tool not found")
          /\ Fault("tool not found", files[idx])
          /\ UNCHANGED << conversation, heap, pendingTools, forceJSON >>
     ELSE IF ~toolCall.valid
     THEN /\ Throw("tool arguments")
          /\ Fault("tool arguments", files[idx])
          /\ UNCHANGED << conversation, heap, pendingTools, forceJSON >>
     ELSE /\ conversation' =
               [messages |-> Append(conversation.messages,
                                    Message("tool",
                                            getImportLines(disk, toolCall.filePath),
                                            toolCall.name))]
          /\ heap' = Append(heap, conversation')
          /\ pendingTools' = <<>>
          /\ pc' = "oracle"
          /\ forceJSON' = FALSE
          /\ UNCHANGED << thrown, faults >>
  /\ UNCHANGED << env, files, idx, callingReasons, moduleDescriptions,
                  rounds, mainVars, inflight, analysed, reported >>

\* one pass of the loop over the tool calls; after the last one callOpenAI
\* calls itself with the extended conversation and no forceJSON
ToolStep ==
  /\ pc = "tools"
  /\ pendingTools # <<>>
  /\ LET toolCall == Head(pendingTools) IN
     IF ~ToolFound(toolCall)
     THEN /\ Throw("tool not found")
          /\ Fault("tool not found", files[idx])
          /\ UNCHANGED << conversation, heap, pendingTools, forceJSON >>
     ELSE IF ~toolCall.valid
     THEN /\ Throw("tool arguments")
          /\ Fault("tool arguments", files[idx])
          /\ UNCHANGED << conversation, heap, pendingTools, forceJSON >>
     ELSE /\ conversation' =
               [messages |-> Append(conversation.messages,
                                    Message("tool",
                                            getImportLines(disk, toolCall.filePath),
                                            toolCall.name))]
          /\ heap' = Append(heap, conversation')
          /\ pendingTools' = Tail(pendingTools)
          /\ IF Tail(pendingTools) = <<>>
             THEN pc' = "oracle" /\ forceJSON' = FALSE
             ELSE UNCHANGED << pc, forceJSON >>
          /\ UNCHANGED << thrown, faults >>
  /\ UNCHANGED << env, files, idx, callingReasons, moduleDescriptions,
                  rounds, mainVars, inflight, analysed, reported >>

\* the reply has no tool calls: callOpenAI returns it and createModuleMap
\* parses it, records the description and the facts and goes to the next
\* file; the frames of callOpenAI and their conversation are gone then
OracleFinal ==
  /\ pc = "oracle"
  /\ LET file == files[idx] IN
     \E reply \in Replies(files, file) :
       IF ~JSONParses(reply)
       THEN ParseFailure(file)
       ELSE IF reply.kind = "null"
       THEN /\ Throw("type")
            /\ Fault("type", file)
            /\ UNCHANGED << idx, callingReasons, moduleDescriptions, conversation, heap,
                            forceJSON, pendingTools, rounds, inflight, analysed,
                            reported >>
       ELSE /\ moduleDescriptions' = Put(moduleDescriptions, file, reply.description)
            /\ IF ~reply.hasModules
               THEN /\ Throw("type")
                    /\ Fault("type", file)
                    /\ UNCHANGED << idx, callingReasons, conversation, heap, forceJSON,
                                    pendingTools, rounds, inflight, analysed, reported >>
               ELSE /\ callingReasons' =
                         RecordReasons(callingReasons, file, JSONParseModules(reply.modules))
                    /\ idx' = idx + 1
                    /\ pc' = "loop"
                    /\ conversation' = createConversation
                    /\ heap' = <<>>
                    /\ forceJSON' = FALSE
                    /\ pendingTools' = <<>>
                    /\ rounds' = 0
                    /\ inflight' = inflight \ {idx}
                    /\ analysed' = analysed \cup {idx}
                    /\ reported' = Append(reported, [file |-> file, reply |-> reply])
                    /\ UNCHANGED << thrown, faults >>
  /\ UNCHANGED << env, files, mainVars >>

\* Assemble with the bug of leaving the first loop one file early
Assemble_Early ==
  /\ pc = "loop"
  /\ idx >= Len(files)
  /\ moduleMap' =
       [modules |-> AssembleModules(files, callingReasons, moduleDescriptions, Len(files)),
        returned |-> TRUE]
  /\ pc' = "returned"
  /\ UNCHANGED << env, progVars, thrown, exitStatus, written, saveCalls,
                  histVars >>

\* the first loop is over: the second loop assembles the map, and
\* createModuleMap returns it
Assemble ==
  /\ pc = "loop"
  /\ idx > Len(files)
  /\ moduleMap' =
       [modules |-> AssembleModules(files, callingReasons, moduleDescriptions, Len(files)),
        returned |-> TRUE]
  /\ pc' = "returned"
  /\ UNCHANGED << env, progVars, thrown, exitStatus, written, saveCalls,
                  histVars >>

\* main: saveMapAsYaml(moduleMap, outputPath), then the summary
Save ==
  /\ pc = "returned"
  /\ saveCalls' = saveCalls + 1
  /\ \E writeOk \in BOOLEAN :
       IF writeOk
       THEN /\ written' = Append(written, moduleMap.modules)
            /\ exitStatus' = 0
            /\ UNCHANGED << thrown, faults >>
       ELSE /\ thrown' = "write"
            /\ Fault("write", <<>>)
            /\ exitStatus' = 1
            /\ UNCHANGED written
  /\ pc' = "exited"
  /\ UNCHANGED << env, progVars, moduleMap, inflight, analysed, reported >>

\* MainCatch with the bug of logging the error without process.exit(1)
MainCatch_NoExitCode ==
  /\ pc = "threw"
  /\ exitStatus' = 0
  /\ pc' = "exited"
  /\ UNCHANGED << env, progVars, moduleMap, thrown, written, saveCalls,
                  histVars >>

\* main: the catch block, console.error and process.exit(1)
MainCatch ==
  /\ pc = "threw"
  /\ exitStatus' = 1
  /\ pc' = "exited"
  /\ UNCHANGED << env, progVars, moduleMap, thrown, written, saveCalls,
                  histVars >>

Next ==
  \/ Enumerate
  \/ BeginFile
  \/ OracleThrows
  \/ OracleToolCalls
  \/ ToolStep
  \/ OracleFinal
  \/ Assemble
  \/ Save
  \/ MainCatch

Spec == Init /\ [][Next]_vars

(***************************************************************************)
(* extractCalledModules on its own: the arguments are drawn from small     *)
(* sets and the function is applied once.                                  *)
(***************************************************************************)
\* the largest number of lines of the importLines argument
MaxLines == 2

\* lines with a relative specifier, a package name, an absolute path and a
\* bare file name, and a line without an import
ImportLines ==
  { <<"f", "r", "o", "m", " ", "'", ".", "/", "b", "'">>,
    <<"f", "r", "o", "m", " ", "\"", "r", "e", "a", "c", "t", "\"">>,
    <<"f", "r", "o", "m", " ", " ", "'", "/", "b", ".", "t", "s", "'", ";">>,
    <<"x", " ", "f", "r", "o", "m", "\t", "'", "b", ".", "t", "s", "'">>,
    LineCode }

ImportTexts ==
  {Join(ls, <<"\n">>) : ls \in UNION {[1..n -> ImportLines] : n \in 0..MaxLines}}

InitExtract ==
  /\ disk \in Disks
  /\ apiKey \in BOOLEAN
  /\ pc = "main"
  /\ files = <<>>
  /\ idx = 1
  /\ callingReasons = <<>>
  /\ moduleDescriptions = <<>>
  /\ conversation = createConversation
  /\ heap = <<>>
  /\ forceJSON = FALSE
  /\ pendingTools = <<>>
  /\ rounds = 0
  /\ moduleMap = NoMap
  /\ thrown = NoError
  /\ exitStatus = NotExited
  /\ written = <<>>
  /\ saveCalls = 0
  /\ inflight = {}
  /\ analysed = {}
  /\ reported = <<>>
  /\ faults = {}
  /\ extraction \in {[importLines |-> t, filePath |-> f, done |-> FALSE, result |-> <<>>] :
                       t \in ImportTexts, f \in {<<>>, A_TS}}
  /\ resolution = NoResolution

ExtractCalledModules ==
  /\ ~extraction.done
  /\ extraction' =
       [extraction EXCEPT
          !.done = TRUE,
          !.result = extractCalledModules(extraction.importLines, disk, extraction.filePath)]
  /\ UNCHANGED << disk, apiKey, resolution, pc, progVars, mainVars, thrown, histVars >>

NextExtract == ExtractCalledModules

(***************************************************************************)
(* The program and the utility together: a behaviour is a run of main or a *)
(* call of extractCalledModules.                                           *)
(***************************************************************************)
InitWithExtract == Init \/ InitExtract

NextWithExtract ==
  \/ (extraction = NoExtraction /\ Next)
  \/ NextExtract

SpecWithExtract == InitWithExtract /\ [][NextWithExtract]_vars

(***************************************************************************)
(* getTypescriptFiles on its own: the project tree is drawn from a set of  *)
(* small trees of depth three and the files are enumerated once.           *)
(***************************************************************************)
\* the largest number of entries of the project root
MaxEntries == 2

SRC == <<"s", "r", "c">>

\* the recognized extensions and the markers of a declaration, a test and a
\* config file
Extensions == {TS, TSX}
Markers == {<<".", "d">>, <<".", "t", "e", "s", "t">>, <<".", "c", "o", "n", "f", "i", "g">>}

\* the files a, a.d, a.test and a.config with each extension and a.js, and
\* the directories src, node_modules and .git
EnumEntries ==
  {File(<<"a">> \o marker \o ext, <<>>) : marker \in Markers \cup {<<>>}, ext \in Extensions}
  \cup {File(<<"a", ".", "j", "s">>, <<>>)}
  \cup {Dir(d) : d \in {SRC, NODE_MODULES, <<".", "g", "i", "t">>}}

\* what readdirSync may return for the root, for a directory of the root and
\* for a directory below that
RootListings ==
  UNION {{r \in [1..n -> EnumEntries] : \A i, j \in 1..n : r[i].name = r[j].name => i = j}
         : n \in 0..MaxEntries}
SubListings == {<<>>} \cup {<<e>> : e \in EnumEntries}
DeepListings == {<<File(A_TS, <<>>)>>, <<File(<<"a">> \o TEST_TS \o <<"x">>, <<>>)>>}

DirsOf(listing) == {listing[i].name : i \in {j \in 1..Len(listing) : listing[j].dir}}

EnumDisk(root, sub, deep) ==
  LET level1 == DirsOf(root)
      level2 == {d1 \o SLASH \o d2 : d1 \in level1, d2 \in DirsOf(sub)}
  IN [p \in {<<>>} \cup level1 \cup level2 |->
        IF p = <<>> THEN root ELSE IF p \in level1 THEN sub ELSE deep]

EnumDisks ==
  {DiskMissing}
  \cup {EnumDisk(root, sub, deep) :
          root \in RootListings, sub \in SubListings, deep \in DeepListings}

InitEnumerate ==
  /\ disk \in EnumDisks
  /\ apiKey = TRUE
  /\ pc = "main"
  /\ files = <<>>
  /\ idx = 1
  /\ callingReasons = <<>>
  /\ moduleDescriptions = <<>>
  /\ conversation = createConversation
  /\ heap = <<>>
  /\ forceJSON = FALSE
  /\ pendingTools = <<>>
  /\ rounds = 0
  /\ moduleMap = NoMap
  /\ thrown = NoError
  /\ exitStatus = NotExited
  /\ written = <<>>
  /\ saveCalls = 0
  /\ inflight = {}
  /\ analysed = {}
  /\ reported = <<>>
  /\ faults = {}
  /\ extraction = NoExtraction
  /\ resolution = NoResolution

SpecEnumerate == InitEnumerate /\ [][Enumerate]_vars

(***************************************************************************)
(* resolveImportPath on its own: the project tree, the importing file and  *)
(* the specifier are drawn from small sets and the function is applied     *)
(* once.                                                                   *)
(***************************************************************************)
\* the largest number of leading "../" of a specifier
MaxUp == 2

READ == <<"r", "e", "a", "d">>
UTILS == <<"u", "t", "i", "l", "s">>
SRC_UTILS == SRC \o SLASH \o UTILS
SRC_UTILS_READ == SRC_UTILS \o SLASH \o READ
SRC_ANIMALS == <<"s", "r", "c", "/", "a", "n", "i", "m", "a", "l", "s">>
SRC_ANIMALS_CATS_TS == SRC_ANIMALS \o <<"/", "c", "a", "t", "s", ".", "t", "s">>

\* the project src/animals/cats.ts, src/utils/..., where src/utils may hold
\* an entry named read (a file or a directory, the directory with or without
\* index files), read.ts and read.tsx
ResolveDisk(plain, hasTs, hasTsx, indexTs, indexTsx) ==
  LET utils ==
        (IF plain = "file" THEN <<File(READ, <<>>)>> ELSE <<>>)
        \o (IF plain = "dir" THEN <<Dir(READ)>> ELSE <<>>)
        \o (IF hasTs THEN <<File(READ \o TS, <<>>)>> ELSE <<>>)
        \o (IF hasTsx THEN <<File(READ \o TSX, <<>>)>> ELSE <<>>)
      index ==
        (IF indexTs THEN <<File(INDEX_TS, <<>>)>> ELSE <<>>)
        \o (IF indexTsx THEN <<File(<<"i", "n", "d", "e", "x">> \o TSX, <<>>)>> ELSE <<>>)
      tree ==
        (<<>> :> <<File(A_TS, <<>>), Dir(SRC)>>)
        @@ (SRC :> <<File(A_TS, <<>>), Dir(<<"a", "n", "i", "m", "a", "l", "s">>), Dir(UTILS)>>)
        @@ (SRC_ANIMALS :> <<File(<<"c", "a", "t", "s">> \o TS, <<>>)>>)
        @@ (SRC_UTILS :> utils)
  IN IF plain = "dir" THEN tree @@ (SRC_UTILS_READ :> index) ELSE tree

ResolveDisks ==
  {ResolveDisk(plain, hasTs, hasTsx, indexTs, indexTsx) :
     plain \in {"none", "file", "dir"}, hasTs \in BOOLEAN, hasTsx \in BOOLEAN,
     indexTs \in BOOLEAN, indexTsx \in BOOLEAN}

\* n times "../", or "./" for n = 0
RECURSIVE Ups(_)
Ups(n) ==
  IF n = 0 THEN <<".", "/">>
  ELSE IF n = 1 THEN <<".", ".", "/">>
  ELSE <<".", ".", "/">> \o Ups(n - 1)

\* relative specifiers with up to MaxUp "../", a package name and a bare path
ImportPaths ==
  {Ups(n) \o tail : n \in 0..MaxUp, tail \in {READ, UTILS \o SLASH \o READ, SRC_UTILS_READ}}
  \cup {REACT, SRC_UTILS_READ}

ImportingFiles ==
  {A_TS, SRC \o SLASH \o A_TS, SRC_ANIMALS_CATS_TS, SRC_UTILS \o <<"/", "x">> \o TS}

InitResolve ==
  /\ disk \in ResolveDisks
  /\ apiKey = TRUE
  /\ pc = "main"
  /\ files = <<>>
  /\ idx = 1
  /\ callingReasons = <<>>
  /\ moduleDescriptions = <<>>
  /\ conversation = createConversation
  /\ heap = <<>>
  /\ forceJSON = FALSE
  /\ pendingTools = <<>>
  /\ rounds = 0
  /\ moduleMap = NoMap
  /\ thrown = NoError
  /\ exitStatus = NotExited
  /\ written = <<>>
  /\ saveCalls = 0
  /\ inflight = {}
  /\ analysed = {}
  /\ reported = <<>>
  /\ faults = {}
  /\ extraction = NoExtraction
  /\ resolution \in {[importPath |-> sp, importingFilePath |-> f, done |-> FALSE,
                       result |-> <<>>] : sp \in ImportPaths, f \in ImportingFiles}

ResolveImportPath ==
  /\ ~resolution.done
  /\ resolution' =
       [resolution EXCEPT
          !.done = TRUE,
          !.result = resolveImportPath(resolution.importPath,
                                       resolution.importingFilePath, disk)]
  /\ UNCHANGED << disk, apiKey, extraction, pc, progVars, mainVars, thrown, histVars >>

SpecResolve == InitResolve /\ [][ResolveImportPath]_vars

(***************************************************************************)
(* The second loop of createModuleMap on its own: the state after the      *)
(* first loop is built from two replies, the first with up to MaxFacts     *)
(* members in `modules`, names written twice included; then the map is     *)
(* assembled and saved.                                                    *)
(***************************************************************************)
\* the largest number of members of `modules` in the first file's reply
MaxFacts == 2

\* the members of `modules` as written in a reply, at most n of them
ModuleMembers(fileList, n) ==
  UNION {[1..m -> [k : OraclePaths(fileList), v : Reasons]] : m \in 0..n}

InitAssemble ==
  /\ disk \in {DiskTwo, DiskSwapped}
  /\ apiKey = TRUE
  /\ pc = "loop"
  /\ files = getTypescriptFiles(disk)
  /\ idx = Len(files) + 1
  /\ \E m1 \in ModuleMembers(getTypescriptFiles(disk), MaxFacts),
        m2 \in ModuleMembers(getTypescriptFiles(disk), 1) :
       LET fileList == getTypescriptFiles(disk)
           reply1 == Reply("object", Describe(fileList[1]), TRUE, m1)
           reply2 == Reply("object", Describe(fileList[2]), TRUE, m2)
       IN /\ moduleDescriptions =
               Put(Put(<<>>, fileList[1], reply1.description),
                   fileList[2], reply2.description)
          /\ callingReasons =
               RecordReasons(RecordReasons(<<>>, fileList[1], JSONParseModules(m1)),
                             fileList[2], JSONParseModules(m2))
          /\ reported = << [file |-> fileList[1], reply |-> reply1],
                           [file |-> fileList[2], reply |-> reply2] >>
  /\ conversation = createConversation
  /\ heap = <<>>
  /\ forceJSON = FALSE
  /\ pendingTools = <<>>
  /\ rounds = 0
  /\ moduleMap = NoMap
  /\ thrown = NoError
  /\ exitStatus = NotExited
  /\ written = <<>>
  /\ saveCalls = 0
  /\ inflight = {}
  /\ analysed = {1, 2}
  /\ faults = {}
  /\ extraction = NoExtraction
  /\ resolution = NoResolution

NextAssemble == Assemble \/ Save

SpecAssemble == InitAssemble /\ [][NextAssemble]_vars

(***************************************************************************)
(* Properties.                                                             *)
(***************************************************************************)
Returned == moduleMap.returned

FileSet == Range(files)

\* map[f] of the returned map
Entry(f) == Get(moduleMap.modules, f)

\* the edge facts the analysis stage recorded, as (source, target, reason)
EdgeFacts ==
  UNION {{<<reported[i].file, reported[i].reply.modules[j].k,
            reported[i].reply.modules[j].v>> : j \in 1..Len(reported[i].reply.modules)}
         : i \in 1..Len(reported)}

\* the reply the oracle gave for file f
ReplyFor(f) == reported[CHOOSE i \in 1..Len(reported) : reported[i].file = f].reply

\* the pairs the store holds, as assembly reads them back
StoredPairs == {<<Module1(k), Module2(k)>> : k \in KeySet(callingReasons)}

\* C1: in every returned map, for all enumerated A and B (A = B included) and
\* every reason, map[A].calling[B] = reason iff map[B].callers[A] = reason.
C1_Symmetry ==
  Returned =>
    \A a \in FileSet, b \in FileSet : \A reason \in Reasons :
      (Get(Entry(a).calling, b) = reason) <=> (Get(Entry(b).callers, a) = reason)

\* C2: for every recorded edge fact (A, B, reason) with A and B enumerated, the
\* returned map has map[A].calling[B] = reason and map[B].callers[A] = reason.
C2_EdgeFactsInMap ==
  Returned =>
    \A fact \in EdgeFacts :
      (fact[1] \in FileSet /\ fact[2] \in FileSet) =>
        /\ Get(Entry(fact[1]).calling, fact[2]) = fact[3]
        /\ Get(Entry(fact[2]).callers, fact[1]) = fact[3]

C4_TargetsEnumerated ==
  Returned =>
    \A f \in FileSet :
      /\ KeySet(Entry(f).calling) \subseteq FileSet
      /\ KeySet(Entry(f).callers) \subseteq FileSet

Specifiers ==
  {MatchFrom(l) : l \in Range(Split(extraction.importLines, <<"\n">>))} \ {undefined}

C6_TargetsNormalized ==
  KeySet(callingReasons) =
    {PairKey(fact[1], resolveImportPath(fact[2], fact[1], disk)) : fact \in EdgeFacts}

C8_Descriptions ==
  Returned =>
    \A f \in FileSet :
      /\ Entry(f).description # undefined
      /\ Entry(f).description # <<>>
      /\ Entry(f).description = ReplyFor(f).description

\* C9: at most one analysis is running, an analysis starts only when those of
\* all earlier files have completed, and the map is assembled only when all
\* files have been analysed.
C9_Sequential ==
  /\ Cardinality(inflight) <= 1
  /\ inflight \cap analysed = {}
  /\ \A i \in inflight \cup analysed : \A j \in 1..(i - 1) : j \in analysed
  /\ Returned => (analysed = 1..Len(files) /\ inflight = {})

\* the follow-up call after a tool round of the second file is in flight
C9_Witness ==
  /\ pc = "oracle"
  /\ rounds = 1
  /\ inflight = {2}
  /\ analysed = {1}

\* C10: the map is written only when createModuleMap has returned it for all
\* files; after any failure the process ends with a non-zero status; when
\* createModuleMap failed, saveMapAsYaml is not called.
C10_Main ==
  /\ written # <<>> =>
       (Returned /\ analysed = 1..Len(files) /\ written = <<moduleMap.modules>>)
  /\ saveCalls > 0 => Returned
  /\ (pc = "exited" /\ faults # {}) => (exitStatus # 0 /\ exitStatus # NotExited)
  /\ ~Returned => (saveCalls = 0 /\ written = <<>>)

\* the process has ended with status 1 after the analysis of the second file
\* failed, and nothing was written
C10_Witness ==
  /\ pc = "exited"
  /\ exitStatus = 1
  /\ Len(files) = 2
  /\ analysed = {1}
  /\ saveCalls = 0
  /\ written = <<>>

\* the run of the end-to-end scenario: a.ts and b.ts enumerated, the oracle
\* reported for a.ts a description and the one module b.ts with reason r, and
\* for b.ts a description and no module
ScenarioRun(r) ==
  /\ files = <<A_TS, B_TS>>
  /\ reported =
       << [file |-> A_TS,
           reply |-> Reply("object", Describe(A_TS), TRUE, <<[k |-> B_TS, v |-> r]>>)],
          [file |-> B_TS, reply |-> Reply("object", Describe(B_TS), TRUE, <<>>)] >>

\* C11: in the end-to-end scenario the returned map has a.ts.calling =
\* {b.ts: r}, a.ts.callers = {}, b.ts.calling = {}, b.ts.callers = {a.ts: r}
\* and the two descriptions as the oracle reported them.
C11_EndToEnd ==
  \A r \in Reasons :
    (Returned /\ ScenarioRun(r)) =>
      /\ Entry(A_TS) = [description |-> Describe(A_TS),
                        calling |-> <<[k |-> B_TS, v |-> r]>>, callers |-> <<>>]
      /\ Entry(B_TS) = [description |-> Describe(B_TS),
                        calling |-> <<>>, callers |-> <<[k |-> A_TS, v |-> r]>>]
      /\ Keys(moduleMap.modules) = <<A_TS, B_TS>>

\* the scenario has run and createModuleMap has returned
C11_Witness == Returned /\ ScenarioRun(R1) /\ pc = "returned"

\* the number of messages of a conversation that have the given role
CountRole(conv, role) == Cardinality({i \in 1..Len(conv.messages) : conv.messages[i].role = role})

\* C12: the conversation of the analysis of file F opens with the one user
\* message built from the file list, F's path and F's content; every later
\* message is an assistant or tool message of a round of this analysis, so
\* nothing of the analysis of another file is in it.
C12_FreshConversation ==
  pc \in {"oracle", "tools"} =>
    LET file == files[idx] IN
    /\ conversation.messages # <<>>
    /\ conversation.messages[1] =
         Message("user", Prompt(files, file, getFileContent(disk, file)), undefined)
    /\ \A i \in 2..Len(conversation.messages) :
         conversation.messages[i].role \in {"assistant", "tool"}
    /\ CountRole(conversation, "assistant") = rounds
    /\ (rounds = 0 => Len(conversation.messages) = 1)

\* the follow-up request of the second file's analysis is with the oracle,
\* after the first file's analysis recorded a module
C12_Witness ==
  /\ pc = "oracle"
  /\ idx = 2
  /\ rounds = 1
  /\ Len(reported) = 1
  /\ reported[1].reply.modules # <<>>
  /\ Len(conversation.messages) >= 3

\* the messages of a conversation from its last assistant message on
LastRound(conv) ==
  LET at == {i \in 1..Len(conv.messages) : conv.messages[i].role = "assistant"}
      last == CHOOSE i \in at : \A j \in at : j <= i
  IN IF at = {} THEN <<>> ELSE SubSeq(conv.messages, last, Len(conv.messages))

\* the tool call names a tool of the tool map and its arguments parse
Executable(toolCall) == toolCall.name = GET_IMPORT_LINES /\ toolCall.valid

\* the messages a round adds for the first n tool calls of a request: the
\* assistant's message, then the output of each tool call in request order
RoundMessages(request, n) ==
  <<Message("assistant", <<>>, undefined)>>
  \o [i \in 1..n |-> Message("tool", getImportLines(disk, request[i].filePath),
                               request[i].name)]

\* C13: while the tool calls of a reply are executed no reply is returned;
\* the oracle is called again only when every tool call of the reply has been
\* executed, with the conversation extended by the assistant's message and
\* the tool outputs in request order; a reply is handed to createModuleMap
\* only when no tool call is pending.
C13_ToolRounds ==
  /\ pc = "tools" =>
       /\ pendingTools # <<>>
       /\ idx \in inflight
       /\ \E request \in ToolRequests : \E n \in 0..(Len(request) - 1) :
            /\ pendingTools = SubSeq(request, n + 1, Len(request))
            /\ \A i \in 1..n : Executable(request[i])
            /\ LastRound(conversation) = RoundMessages(request, n)
  /\ (pc = "oracle" /\ rounds > 0) =>
       /\ pendingTools = <<>>
       /\ \E request \in ToolRequests :
            /\ \A i \in 1..Len(request) : Executable(request[i])
            /\ LastRound(conversation) = RoundMessages(request, Len(request))
  /\ pc \in {"loop", "returned"} => pendingTools = <<>>
  /\ \A i \in analysed : i # idx

\* the follow-up request after a reply with two tool calls is with the
\* oracle: both outputs are in the conversation, in request order
C13_Witness ==
  /\ pc = "oracle"
  /\ rounds = 1
  /\ disk = DiskTwo
  /\ Len(LastRound(conversation)) = 3
  /\ LastRound(conversation)[2].content = getImportLines(disk, REACT)
  /\ LastRound(conversation)[3].content = getImportLines(disk, A_TS)
  /\ getImportLines(disk, REACT) # getImportLines(disk, A_TS)

\* C14: every enumerated path ends with .ts or .tsx, its file name ends with
\* none of .d.<ext>, .test.<ext>, .config.<ext> for <ext> in ts, tsx, and
\* none of its directories is node_modules or has a name beginning with '.'.
C14_Excluded ==
  pc = "loop" =>
    \A f \in Range(files) :
      LET segs == Split(f, SLASH)
          name == segs[Len(segs)]
      IN /\ \E ext \in Extensions : EndsWith(name, ext)
         /\ \A marker \in Markers, ext \in Extensions : ~EndsWith(name, marker \o ext)
         /\ \A i \in 1..(Len(segs) - 1) :
              segs[i] # NODE_MODULES /\ ~StartsWith(segs[i], DOT)

\* the call of resolveImportPath has returned, and its specifier is relative
ResolvedRelative == resolution.done /\ StartsWith(resolution.importPath, DOT)

\* resolvedPath of the call, and the candidates probed
ResolvedPath ==
  PathNormalize(PathJoin(PathDirname(resolution.importingFilePath), resolution.importPath))
Candidates == possiblePaths(ResolvedPath)

\* C15: for a relative specifier the result has no '..' segment and is
\* relative; ../utils/read written in src/animals/cats.ts resolves to
\* src/utils/read.ts when that file is the one that exists.
C15_NoParentSegment ==
  ResolvedRelative =>
    /\ DOTDOT \notin Range(Split(resolution.result, SLASH))
    /\ ~StartsWith(resolution.result, SLASH)
    /\ (/\ resolution.importingFilePath = SRC_ANIMALS_CATS_TS
        /\ resolution.importPath = Ups(1) \o UTILS \o SLASH \o READ
        /\ disk = ResolveDisk("none", TRUE, FALSE, FALSE, FALSE))
       => resolution.result = SRC_UTILS \o SLASH \o READ \o TS

\* C16: for a relative specifier the result is the first candidate, in the
\* order probed, that is an enumerated source file, when there is one; and a
\* result that exists on disk is an enumerated source file.
C16_FirstEnumerated ==
  ResolvedRelative =>
    LET enumerated == Range(getTypescriptFiles(disk))
        hits == {i \in 1..Len(Candidates) : Candidates[i] \in enumerated}
    IN /\ hits # {} =>
            resolution.result = Candidates[CHOOSE i \in hits : \A j \in hits : i <= j]
       /\ existsSync(disk, resolution.result) => resolution.result \in enumerated

\* C17: a call of resolveImportPath returns a string; when no candidate of a
\* relative specifier exists it is the normalized root-relative path with
\* ".ts" appended, and a non-relative specifier comes back unchanged.
C17_BestGuess ==
  resolution.done =>
    /\ resolution.result # undefined
    /\ ~StartsWith(resolution.importPath, DOT) => resolution.result = resolution.importPath
    /\ (/\ StartsWith(resolution.importPath, DOT)
        /\ \A i \in 1..Len(Candidates) : ~existsSync(disk, Candidates[i]))
       => /\ resolution.result = ResolvedPath \o TS
          /\ EndsWith(resolution.result, TS)
          /\ \A seg \in Range(Split(ResolvedPath, SLASH)) : seg # DOT /\ seg # <<>>

\* ../utils/read written in src/animals/cats.ts, in a project with nothing
\* named read: the result is the guess src/utils/read.ts
C17_Witness ==
  /\ resolution.done
  /\ resolution.importingFilePath = SRC_ANIMALS_CATS_TS
  /\ resolution.importPath = Ups(1) \o UTILS \o SLASH \o READ
  /\ disk = ResolveDisk("none", FALSE, FALSE, FALSE, FALSE)
  /\ resolution.result = SRC_UTILS \o SLASH \o READ \o TS
  /\ ~existsSync(disk, resolution.result)

\* C18: when the reply for a source file wrote the same target twice with
\* different reasons, the returned map has the reason written last in
\* map[source].calling[target] and, the target being an enumerated file, in
\* map[target].callers[source].
C18_LastReasonWins ==
  Returned =>
    \A i \in 1..Len(reported) :
      LET source == reported[i].file
          members == reported[i].reply.modules
      IN \A j \in 1..Len(members) : \A n \in (j + 1)..Len(members) :
           (/\ members[j].k = members[n].k
            /\ members[j].v # members[n].v
            /\ \A later \in (n + 1)..Len(members) : members[later].k # members[n].k)
           => /\ Get(Entry(source).calling, members[n].k) = members[n].v
              /\ members[n].k \in FileSet =>
                   Get(Entry(members[n].k).callers, source) = members[n].v

\* C19: the entries of the returned map are in ascending order of file path,
\* the order sortObjectKeys gives.
C19_SortedEntries ==
  Returned => moduleMap.modules = sortObjectKeys(moduleMap.modules)

C21_BoundedCalls ==
  pc = "oracle" => rounds + 1 <= MaxRounds

\* C22: createModuleMap calls callOpenAI with forceJSON = true, and the reply
\* it gets back (the step from the oracle call to the next pass of the first
\* loop) comes from an oracle call that forced JSON output, also after tool
\* rounds.
C22_FinalReplyForced ==
  [][(pc = "oracle" /\ pc' = "loop") => forceJSON]_vars

\* C23: the edge-fact store round-trips every pair: a fact recorded for source
\* S and target T is read back at assembly as exactly (S, T), and two distinct
\* (source, target) pairs never share a stored key, also for paths that
\* contain the text "->".
C23_StoreRoundTrip ==
  /\ \A fact \in EdgeFacts :
       LET pathPairs == PairKey(fact[1], fact[2]) IN
       Has(callingReasons, pathPairs) =>
         <<Module1(pathPairs), Module2(pathPairs)>> = <<fact[1], fact[2]>>
  /\ \A fact1 \in EdgeFacts, fact2 \in EdgeFacts :
       <<fact1[1], fact1[2]>> # <<fact2[1], fact2[2]>>
         => PairKey(fact1[1], fact1[2]) # PairKey(fact2[1], fact2[2])

\* C24: when the oracle asks for a tool that is not among the tools supplied,
\* callOpenAI throws 'Tool not found' at that tool call: no tool runs for
\* it, no message is added and no further oracle call is made; the error
\* leaves createModuleMap, which returns no map, and no file is analysed
\* after it.
C24_ToolNotFound ==
  [][/\ (pc = "tools" /\ pendingTools # <<>>
          /\ Head(pendingTools).name # GET_IMPORT_LINES)
        => /\ pc' = "threw"
           /\ thrown' = "tool not found"
           /\ [kind |-> "tool not found", file |-> files[idx]] \in faults'
           /\ UNCHANGED << conversation, rounds, analysed, reported >>
     /\ thrown = "tool not found"
        => /\ pc' = "exited"
           /\ exitStatus' = 1
           /\ ~moduleMap'.returned
           /\ UNCHANGED << conversation, rounds, analysed, reported, written >>
    ]_vars

\* the oracle asked for other_tool, callOpenAI threw and main caught the error
C24_Witness ==
  /\ pc = "exited"
  /\ thrown = "tool not found"
  /\ exitStatus = 1
  /\ \E fault \in faults : fault.kind = "tool not found"
  /\ conversation.messages # <<>>
  /\ conversation.messages[Len(conversation.messages)].role = "assistant"

\* C25: running get_import_lines for a tool call adds one tool message and
\* does not throw: for a readable file the message holds, in file order,
\* exactly the lines whose trimmed text begins with 'import', each wrapped
\* in import_line tags and joined by newlines; for a file that cannot be read
\* it holds an error text, and callOpenAI goes on to the next tool call or
\* to the next oracle call.
C25_ImportLinesTool ==
  [][(pc = "tools" /\ pendingTools # <<>> /\ Executable(Head(pendingTools)))
       => LET filePath == Head(pendingTools).filePath
              before == conversation.messages
              after == conversation'.messages
              wanted == IF IsReadableFile(disk, filePath)
                        THEN SelectSeq(getFileContent(disk, filePath),
                                       LAMBDA line : StartsWith(Trim(line), IMPORT))
                        ELSE <<>>
          IN /\ Len(after) = Len(before) + 1
             /\ SubSeq(after, 1, Len(before)) = before
             /\ after[Len(after)].role = "tool"
             /\ after[Len(after)].name = GET_IMPORT_LINES
             /\ IF IsReadableFile(disk, filePath)
                THEN after[Len(after)].content =
                       Join([i \in 1..Len(wanted) |-> OPEN_TAG \o wanted[i] \o CLOSE_TAG],
                            <<"\n">>)
                ELSE StartsWith(after[Len(after)].content, ERROR_PREFIX)
             /\ thrown' = thrown
             /\ faults' = faults
             /\ pc' = IF Len(pendingTools) = 1 THEN "oracle" ELSE "tools"
    ]_vars

\* the oracle asked for the import lines of a package name and of a.ts: the
\* first tool message is the error text, the second holds the two import
\* lines of a.ts, the indented one included, and the oracle is called again
C25_Witness ==
  /\ pc = "oracle"
  /\ thrown = NoError
  /\ \E i \in 1..(Len(conversation.messages) - 1) :
       /\ conversation.messages[i].role = "tool"
       /\ StartsWith(conversation.messages[i].content, ERROR_PREFIX)
       /\ conversation.messages[i + 1].role = "tool"
       /\ conversation.messages[i + 1].content =
            OPEN_TAG \o LineImportB \o CLOSE_TAG \o <<"\n">>
            \o OPEN_TAG \o LineIndented \o CLOSE_TAG

\* the messages the first r oracle rounds add when the rounds before r ran
\* every tool call of their request and round r ran its first n
RECURSIVE RoundsMessages(_, _, _)
RoundsMessages(requests, r, n) ==
  IF r = 0 THEN <<>>
  ELSE (IF r = 1 THEN <<>>
        ELSE RoundsMessages(requests, r - 1, Len(requests[r - 1])))
       \o RoundMessages(requests[r], n)

\* C26: conversations are append-only and never changed in place: during an
\* analysis the conversation createConversation made is still empty after
\* addUserMessage, the conversation handed to callOpenAI still holds only the
\* prompt, every conversation made later is the one before it plus one
\* message, and the updatedConversation is the input messages followed, for
\* each oracle round, by the assistant's message and then one tool message
\* per executed tool call in request order.
C26_AppendOnly ==
  pc \in {"oracle", "tools"} =>
    /\ Len(heap) >= 2
    /\ heap[1] = [messages |-> <<>>]
    /\ heap[2] = [messages |->
                    <<Message("user",
                              Prompt(files, files[idx], getFileContent(disk, files[idx])),
                              undefined)>>]
    /\ \A i \in 1..(Len(heap) - 1) :
         /\ Len(heap[i + 1].messages) = Len(heap[i].messages) + 1
         /\ SubSeq(heap[i + 1].messages, 1, Len(heap[i].messages)) = heap[i].messages
    /\ conversation = heap[Len(heap)]
    /\ \E requests \in [1..rounds -> ToolRequests] :
         \E n \in 0..(IF rounds = 0 THEN 0 ELSE Len(requests[rounds])) :
           /\ \A r \in 1..rounds : \A i \in 1..Len(requests[r]) :
                (r < rounds \/ i <= n) => Executable(requests[r][i])
           /\ pc = "oracle" => (rounds > 0 => n = Len(requests[rounds]))
           /\ pc = "tools" => pendingTools = SubSeq(requests[rounds], n + 1,
                                                    Len(requests[rounds]))
           /\ conversation.messages =
                heap[2].messages \o RoundsMessages(requests, rounds, n)

\* the follow-up request after a round with two tool calls is with the
\* oracle: five conversations were made, the one handed to callOpenAI still
\* holds the prompt alone and the last one holds four messages
C26_Witness ==
  /\ pc = "oracle"
  /\ rounds = 1
  /\ Len(heap) = 5
  /\ Len(heap[2].messages) = 1
  /\ Len(conversation.messages) = 4
  /\ conversation.messages[2].role = "assistant"
  /\ conversation.messages[3].role = "tool"
  /\ conversation.messages[4].role = "tool"

====
